---- MODULE Spec2Model ----
(***************************************************************************)
(* Model of mlinetest.py: a straight-line script that builds a microstrip  *)
(* line with the emerge library, commits the geometry, sets the frequency  *)
(* range, meshes and runs the sweep.  One action per statement of the      *)
(* script; pc names the statement about to run.  A library call either     *)
(* returns or raises; the script has no try/except, so a raised exception  *)
(* ends the run (pc = "aborted").                                          *)
(*                                                                         *)
(* Frequencies are in MHz (the script's values are whole multiples of      *)
(* 1e6 Hz, and the point count is a ratio, so the unit cancels).           *)
(***************************************************************************)
EXTENDS Integers, Sequences, FiniteSets

VARIABLES pc, F_START, F_STOP, F_STEP, npoints, freq_range, resolution,
          stored, geometry, ports, mesh, bcs, invoked, data, g, plots, error

vars == <<pc, F_START, F_STOP, F_STEP, npoints, freq_range, resolution,
          stored, geometry, ports, mesh, bcs, invoked, data, g, plots, error>>

\* Bounds of the explored parameter values (MHz).
MaxFreq == 4
MaxStep == 3

\* SIMULATION_PARAMS as configured, in MHz.
CFG_F_START == 100
CFG_F_STOP == 5000
CFG_F_STEP == 100

\* n_workers passed to run_sweep.
N_WORKERS == 4

NoValue == [unset |-> TRUE]

\* The frequency entries of SIMULATION_PARAMS: the configured triple, or a
\* small triple standing for an edited template.
ParamSets ==
    {<<CFG_F_START, CFG_F_STOP, CFG_F_STEP>>}
        \cup ((0..MaxFreq) \X (0..MaxFreq) \X (0..MaxStep))

\* int(x) of Python for the rational x = num/den, den > 0: truncation
\* towards zero.
IntTrunc(num, den) ==
    IF num >= 0 THEN num \div den ELSE -((-num) \div den)

\* The count without the closing point: (F_STOP - F_START) / F_STEP.
NpointsNoPlusOne(start, stop, step) ==
    [num |-> stop - start, den |-> step]

\* (F_STOP - F_START) / F_STEP + 1 as the exact rational num/den.
NpointsExpr(start, stop, step) ==
    [num |-> (stop - start) + step, den |-> step]

Init ==
    /\ pc = "new_path"
    /\ \E p \in ParamSets :
          /\ F_START = p[1]
          /\ F_STOP = p[2]
          /\ F_STEP = p[3]
    /\ npoints = NoValue
    /\ freq_range = NoValue
    /\ resolution = NoValue
    /\ stored = {}
    /\ geometry = "building"
    /\ ports = {}
    /\ mesh = "none"
    /\ bcs = {}
    /\ invoked = {}
    /\ data = "none"
    /\ g = "none"
    /\ plots = {}
    /\ error = "none"

\* An uncaught exception: the interpreter prints the traceback and exits;
\* no later statement runs.
Raise(e) ==
    /\ pc' = "aborted"
    /\ error' = e

\* pcb.new(...).store("p1").straight(SUB_L).store("p2")
new_path ==
    /\ pc = "new_path"
    /\ stored' = stored \cup {"p1", "p2"}
    /\ pc' = "compile_paths"
    /\ UNCHANGED <<F_START, F_STOP, F_STEP, npoints, freq_range, resolution,
                   geometry, ports, mesh, bcs, invoked, data, g, plots, error>>

\* trace = pcb.compile_paths()
compile_paths ==
    /\ pc = "compile_paths"
    /\ invoked' = invoked \cup {"compile_paths"}
    /\ \/ /\ geometry' = "compiled"
          /\ pc' = "determine_bounds"
          /\ UNCHANGED error
       \/ /\ Raise("GeometryError")
          /\ UNCHANGED geometry
    /\ UNCHANGED <<F_START, F_STOP, F_STEP, npoints, freq_range, resolution,
                   stored, ports, mesh, bcs, data, g, plots>>

\* pcb.determine_bounds(...); ground = pcb.plane(pcb.z(0))
determine_bounds ==
    /\ pc = "determine_bounds"
    /\ geometry' = "bounded"
    /\ pc' = "modal_ports"
    /\ UNCHANGED <<F_START, F_STOP, F_STEP, npoints, freq_range, resolution,
                   stored, ports, mesh, bcs, invoked, data, g, plots, error>>

\* mp1 = pcb.modal_port(pcb.load("p1"), ...); mp2 = pcb.modal_port(pcb.load("p2"), ...)
modal_ports ==
    /\ pc = "modal_ports"
    /\ {"p1", "p2"} \subseteq stored
    /\ ports' = {<<"mp1", "p1">>, <<"mp2", "p2">>}
    /\ pc' = "generate_pcb"
    /\ UNCHANGED <<F_START, F_STOP, F_STEP, npoints, freq_range, resolution,
                   stored, geometry, mesh, bcs, invoked, data, g, plots, error>>

\* diel = pcb.generate_pcb(); air_top = pcb.generate_air(...)
generate_pcb ==
    /\ pc = "generate_pcb"
    /\ \/ /\ geometry' = "generated"
          /\ pc' = "commit_geometry"
          /\ UNCHANGED error
       \/ /\ Raise("GeometryError")
          /\ UNCHANGED geometry
    /\ UNCHANGED <<F_START, F_STOP, F_STEP, npoints, freq_range, resolution,
                   stored, ports, mesh, bcs, invoked, data, g, plots>>

\* m.commit_geometry(); m.view()
commit_geometry ==
    /\ pc = "commit_geometry"
    /\ invoked' = invoked \cup {"commit_geometry"}
    /\ \/ /\ geometry' = "committed"
          /\ pc' = "compute_npoints"
          /\ UNCHANGED error
       \/ /\ Raise("GeometryError")
          /\ UNCHANGED geometry
    /\ UNCHANGED <<F_START, F_STOP, F_STEP, npoints, freq_range, resolution,
                   stored, ports, mesh, bcs, data, g, plots>>

\* npoints = (F_STOP - F_START) / F_STEP + 1
compute_npoints ==
    /\ pc = "compute_npoints"
    /\ IF F_STEP = 0
          THEN /\ Raise("ZeroDivisionError")
               /\ UNCHANGED npoints
          ELSE /\ npoints' = NpointsExpr(F_START, F_STOP, F_STEP)
               /\ pc' = "set_frequency_range"
               /\ UNCHANGED error
    /\ UNCHANGED <<F_START, F_STOP, F_STEP, freq_range, resolution, stored,
                   geometry, ports, mesh, bcs, invoked, data, g, plots>>

\* m.mw.set_frequency_range(fmin=F_START, fmax=F_STOP, Npoints=int(npoints));
\* m.mw.set_resolution(0.25)
set_frequency_range ==
    /\ pc = "set_frequency_range"
    /\ freq_range' = [fmin |-> F_START, fmax |-> F_STOP,
                      Npoints |-> IntTrunc(npoints.num, npoints.den)]
    /\ resolution' = "0.25"
    /\ invoked' = invoked \cup {"set_frequency_range"}
    /\ pc' = "generate_mesh"
    /\ UNCHANGED <<F_START, F_STOP, F_STEP, npoints, stored, geometry, ports,
                   mesh, bcs, data, g, plots, error>>

\* A generate_mesh whose failure is swallowed: the script goes on without a
\* mesh.
generate_mesh_swallowed ==
    /\ pc = "generate_mesh"
    /\ invoked' = invoked \cup {"generate_mesh"}
    /\ \/ /\ mesh' = "coarse"
          /\ pc' = "boundary_conditions"
          /\ UNCHANGED error
       \/ /\ error' = "MeshError"
          /\ pc' = "boundary_conditions"
          /\ UNCHANGED mesh
    /\ UNCHANGED <<F_START, F_STOP, F_STEP, npoints, freq_range, resolution,
                   stored, geometry, ports, bcs, data, g, plots>>

\* m.generate_mesh(); m.view(plot_mesh=False); m.view(plot_mesh=True)
generate_mesh ==
    /\ pc = "generate_mesh"
    /\ invoked' = invoked \cup {"generate_mesh"}
    /\ \/ /\ mesh' = "coarse"
          /\ pc' = "boundary_conditions"
          /\ UNCHANGED error
       \/ /\ Raise("MeshError")
          /\ UNCHANGED mesh
    /\ UNCHANGED <<F_START, F_STOP, F_STEP, npoints, freq_range, resolution,
                   stored, geometry, ports, bcs, data, g, plots>>

\* p1 = m.mw.bc.ModalPort(mp1, 1, modetype="TEM"); p2 = ...(mp2, 2, ...)
boundary_conditions ==
    /\ pc = "boundary_conditions"
    /\ bcs' = {<<"mp1", 1, "TEM">>, <<"mp2", 2, "TEM">>}
    /\ pc' = "view_mesh"
    /\ UNCHANGED <<F_START, F_STOP, F_STEP, npoints, freq_range, resolution,
                   stored, geometry, ports, mesh, invoked, data, g, plots,
                   error>>

\* The call m.adaptive_mesh_refinement(...) is a comment in the script: the
\* statement after the boundary conditions is m.view(plot_mesh=True).
view_mesh ==
    /\ pc = "view_mesh"
    /\ pc' = "run_sweep"
    /\ UNCHANGED <<F_START, F_STOP, F_STEP, npoints, freq_range, resolution,
                   stored, geometry, ports, mesh, bcs, invoked, data, g,
                   plots, error>>

\* data = m.mw.run_sweep(True, n_workers=4)
run_sweep ==
    /\ pc = "run_sweep"
    /\ invoked' = invoked \cup {"run_sweep"}
    /\ data' = [mesh |-> mesh, freq_range |-> freq_range,
                n_workers |-> N_WORKERS]
    /\ pc' = "grid"
    /\ UNCHANGED <<F_START, F_STOP, F_STEP, npoints, freq_range, resolution,
                   stored, geometry, ports, mesh, bcs, g, plots, error>>

\* g = data.scalar.grid
grid ==
    /\ pc = "grid"
    /\ g' = data
    /\ pc' = "plot_sp"
    /\ UNCHANGED <<F_START, F_STOP, F_STEP, npoints, freq_range, resolution,
                   stored, geometry, ports, mesh, bcs, invoked, data, plots,
                   error>>

\* plot_sp(g.freq, [g.S(1, 1)], ...); plot_sp(g.freq, [g.S(2, 1)], ...)
plot_sp ==
    /\ pc = "plot_sp"
    /\ plots' = {"S11", "S21"}
    /\ pc' = "done"
    /\ UNCHANGED <<F_START, F_STOP, F_STEP, npoints, freq_range, resolution,
                   stored, geometry, ports, mesh, bcs, invoked, data, g,
                   error>>

Next ==
    \/ new_path
    \/ compile_paths
    \/ determine_bounds
    \/ modal_ports
    \/ generate_pcb
    \/ commit_geometry
    \/ compute_npoints
    \/ set_frequency_range
    \/ generate_mesh
    \/ boundary_conditions
    \/ view_mesh
    \/ run_sweep
    \/ grid
    \/ plot_sp

Spec == Init /\ [][Next]_vars

(***************************************************************************)
(* Properties                                                              *)
(***************************************************************************)

\* C5: the sweep starts only after adaptive refinement has run on the
\* generated mesh, and the mesh run_sweep solves on is the refined mesh,
\* never the initial coarse one.
C5_SweepOnRefinedMesh ==
    ("run_sweep" \in invoked) =>
        /\ "adaptive_mesh_refinement" \in invoked
        /\ data.mesh = "refined"

\* C6: once geometry compilation/commit or mesh generation has failed, the
\* run has stopped and no sweep is ever invoked; a geometry failure comes
\* before any mesh generation; whenever run_sweep has been invoked the
\* geometry is committed and a mesh exists.
C6_FatalBeforeSweep ==
    /\ (error \in {"GeometryError", "MeshError"}) =>
           /\ pc = "aborted"
           /\ "run_sweep" \notin invoked
           /\ data = "none"
    /\ (error = "GeometryError") => ("generate_mesh" \notin invoked)
    /\ ("run_sweep" \in invoked) =>
           /\ geometry = "committed"
           /\ mesh # "none"
           /\ data.mesh = mesh

\* A run in which mesh generation failed after the geometry was committed.
C6_Witness ==
    /\ error = "MeshError"
    /\ pc = "aborted"
    /\ geometry = "committed"
    /\ "generate_mesh" \in invoked

\* The frequency range once set: fmin and fmax are F_START and F_STOP; when
\* F_START <= F_STOP and F_STEP divides the span, the count passed is
\* span / F_STEP + 1, the points F_START + k * F_STEP for k < Npoints are
\* exactly the multiples of F_STEP from F_START to F_STOP, the last one is
\* F_STOP; the configured values give 50 points.
FreqRangeAsClaimed ==
    ("set_frequency_range" \in invoked) =>
        /\ freq_range.fmin = F_START
        /\ freq_range.fmax = F_STOP
        /\ (F_START <= F_STOP /\ (F_STOP - F_START) % F_STEP = 0) =>
               /\ freq_range.Npoints = (F_STOP - F_START) \div F_STEP + 1
               /\ freq_range.Npoints >= 1
               /\ F_START + (freq_range.Npoints - 1) * F_STEP = F_STOP
               /\ {F_START + k * F_STEP : k \in 0..(freq_range.Npoints - 1)}
                     = {f \in F_START..F_STOP : (f - F_START) % F_STEP = 0}
        /\ (<<F_START, F_STOP, F_STEP>>
               = <<CFG_F_START, CFG_F_STOP, CFG_F_STEP>>) =>
               freq_range.Npoints = 50

====
